---- MODULE Spec2Model ----
(***************************************************************************)
(* Model of RobotSimulator (robot_simulator.py): a robot on a square grid  *)
(* with a heading, a battery and a set of obstacle cells.  Every public    *)
(* method is one action; the private helpers are operators.  The variables *)
(* op, arg, res and diag record the last call, its argument, its return    *)
(* value and the error line it printed, so that the outcome of a call can  *)
(* be related to the state before and after it.  turns, trip, grow and     *)
(* undo remember the calls before the last one where a scenario spans      *)
(* several calls; tally counts the successful moves and turns since        *)
(* construction in the specification that follows the battery.  front      *)
(* says who drives the robot: the methods called directly                  *)
(* ("api"), the /command handler of app.py ("http") or the command loop of *)
(* main() ("cli"); request, response and output record the last command    *)
(* given to a front end, the handler's JSON answer and the line main()     *)
(* printed itself.  threads and start follow two requests that the server  *)
(* handles at the same time: where each of them stands inside the method   *)
(* it called, and the robot's state when the first of them arrived.        *)
(***************************************************************************)
EXTENDS Integers, Sequences, FiniteSets

VARIABLES grid_size, position, direction, battery_level, obstacles,
          op, arg, res, diag, turns, trip, grow, undo, tally,
          front, request, response, output, threads, start

state == <<grid_size, position, direction, battery_level, obstacles>>
vars == <<grid_size, position, direction, battery_level, obstacles,
          op, arg, res, diag, turns, trip, grow, undo, tally,
          front, request, response, output, threads, start>>

\* ---------------------------------------------------------------- bounds
\* largest grid size given to the constructor or to expand_grid
MaxGrid == 5
\* largest battery level given to the constructor
MaxBattery == 15

\* ------------------------------------------------------------- constants
NORTH == 0
EAST == 1
SOUTH == 2
WEST == 3
movement_cost == 5
turn_cost == 2

Directions == {NORTH, EAST, SOUTH, WEST}

\* the seed obstacles of _initialize_obstacles
obstacle_positions == {<<1, 1>>, <<2, 3>>, <<3, 1>>, <<4, 4>>}

\* ---------------------------------------------------------------- inputs
\* direction strings handed to diagonal_move: the four names and one other
DiagonalNames == {"northeast", "northwest", "southeast", "southwest"}
DirectionArgs == DiagonalNames \cup {"invalid"}
\* cells handed to add_obstacle / remove_obstacle: the origin, the cell north of it, a
\* seed, one cell left of the grid, and the last row of the largest grid and beyond
ObstacleArgs == {<<0, 0>>, <<0, 1>>, <<1, 1>>, <<-1, 0>>,
                 <<0, MaxGrid - 1>>, <<0, MaxGrid>>}
\* sizes handed to expand_grid
SizeArgs == 0..MaxGrid

\* --------------------------------------------------------------- helpers
Max(a, b) == IF a >= b THEN a ELSE b


\* the upper bound compared with <= instead of <
IsValidPosition_Inclusive(pos, size) ==
    0 <= pos[1] /\ pos[1] <= size /\ 0 <= pos[2] /\ pos[2] <= size

IsValidPosition(pos, size) ==
    0 <= pos[1] /\ pos[1] < size /\ 0 <= pos[2] /\ pos[2] < size


\* membership looked up in the seed list instead of the live obstacle set
IsObstacle_SeedsOnly(pos, obs) == pos \in obstacle_positions

IsObstacle(pos, obs) == pos \in obs


\* EAST and WEST exchanged
GetNextPosition_Mirrored(pos, dir) ==
    IF dir = NORTH THEN <<pos[1], pos[2] + 1>>
    ELSE IF dir = EAST THEN <<pos[1] - 1, pos[2]>>
    ELSE IF dir = SOUTH THEN <<pos[1], pos[2] - 1>>
    ELSE IF dir = WEST THEN <<pos[1] + 1, pos[2]>>
    ELSE pos

GetNextPosition(pos, dir) ==
    IF dir = NORTH THEN <<pos[1], pos[2] + 1>>
    ELSE IF dir = EAST THEN <<pos[1] + 1, pos[2]>>
    ELSE IF dir = SOUTH THEN <<pos[1], pos[2] - 1>>
    ELSE IF dir = WEST THEN <<pos[1] - 1, pos[2]>>
    ELSE pos


\* the cost truncated to an integer before the comparison
HasSufficientBattery_Truncated(level, cost_halves) == level >= cost_halves \div 2

\* any charge left counts as enough
HasSufficientBattery_AnyCharge(level, cost_halves) == level > 0

\* battery_level >= cost, the cost given in halves (twice the cost) because
\* diagonal_move passes movement_cost * 1.5 = 7.5
HasSufficientBattery(level, cost_halves) == 2 * level >= cost_halves

\* the deduction computed but never stored: the level stays as it is
ConsumeBattery_NotStored(level, cost) == level

ConsumeBattery(level, cost) == Max(0, level - cost)


\* a remainder that keeps the sign of the dividend, as in C or Java
TurnLeft_SignedRemainder(dir) == IF dir - 1 < 0 THEN dir - 1 ELSE (dir - 1) % 4

\* no wrap from WEST back to NORTH
TurnRight_NoWrap(dir) == IF dir = WEST THEN WEST ELSE dir + 1

\* right() turning the same way as left()
TurnRight_Counterclockwise(dir) == (dir - 1) % 4

\* Direction((value - 1) % 4) and Direction((value + 1) % 4); Python's % and
\* TLA+'s % both give a result in 0..3 for a negative left operand
TurnLeft(dir) == (dir - 1) % 4
TurnRight(dir) == (dir + 1) % 4

\* movement_cost * 1.5 rounded to the nearest integer instead of truncated
DiagonalCost_Rounded == (movement_cost * 3 + 1) \div 2

\* int(movement_cost * 1.5): truncation of 7.5
DiagonalCost == (movement_cost * 3) \div 2


\* the x offsets of the two southern directions exchanged
DiagonalTarget_SouthSwapped(pos, name) ==
    IF name = "northeast" THEN <<pos[1] + 1, pos[2] + 1>>
    ELSE IF name = "northwest" THEN <<pos[1] - 1, pos[2] + 1>>
    ELSE IF name = "southeast" THEN <<pos[1] - 1, pos[2] - 1>>
    ELSE IF name = "southwest" THEN <<pos[1] + 1, pos[2] - 1>>
    ELSE pos

DiagonalTarget(pos, name) ==
    IF name = "northeast" THEN <<pos[1] + 1, pos[2] + 1>>
    ELSE IF name = "northwest" THEN <<pos[1] - 1, pos[2] + 1>>
    ELSE IF name = "southeast" THEN <<pos[1] + 1, pos[2] - 1>>
    ELSE IF name = "southwest" THEN <<pos[1] - 1, pos[2] - 1>>
    ELSE pos

\* the seeds filtered with <= size instead of < size
InitializeObstacles_Inclusive(size) ==
    {pos \in obstacle_positions : 0 <= pos[1] /\ pos[1] <= size
                                  /\ 0 <= pos[2] /\ pos[2] <= size}

InitializeObstacles(size) ==
    {pos \in obstacle_positions : 0 <= pos[1] /\ pos[1] < size
                                  /\ 0 <= pos[2] /\ pos[2] < size}

\* the run of consecutive calls of one turn method that the last call ends:
\* which method, how many calls, the heading before the first, all succeeded
NoTurns == [cmd |-> "none", n |-> 0, h0 |-> NORTH, ok |-> TRUE]

TurnRun(cmd, ok) ==
    IF turns.cmd = cmd /\ turns.n < 4
    THEN [cmd |-> cmd, n |-> turns.n + 1, h0 |-> turns.h0, ok |-> turns.ok /\ ok]
    ELSE [cmd |-> cmd, n |-> 1, h0 |-> direction, ok |-> ok]

\* the add_obstacle(p), remove_obstacle(p), remove_obstacle(p) round trip
\* the last call belongs to: how many of its calls were made, the cell p and
\* the obstacle set before the add_obstacle
NoTrip == [n |-> 0, p |-> <<0, 0>>, before |-> {}]

TripStep(name, args) ==
    IF name = "add_obstacle"
    THEN [n |-> 1, p |-> args, before |-> obstacles]
    ELSE IF name = "remove_obstacle" /\ trip.n \in {1, 2} /\ trip.p = args
    THEN [n |-> trip.n + 1, p |-> trip.p, before |-> trip.before]
    ELSE NoTrip

\* the grid expansion the last call follows: step 1 after a successful
\* expand_grid from size `from`, step 2 after the forward or add_obstacle
\* call made right after it
NoGrow == [from |-> 0, step |-> 0]

GrowStep(name, value) ==
    IF name = "expand_grid" /\ value = "True"
    THEN [from |-> grid_size, step |-> 1]
    ELSE IF name \in {"forward", "add_obstacle"} /\ grow.step = 1
    THEN [from |-> grow.from, step |-> 2]
    ELSE NoGrow

\* the successful turn the last call made and the opposite successful turn
\* right before it, if any: how many of the two were made, the method of the
\* last one, and heading, battery and position before the last and before
\* the first of them
Now == [h |-> direction, b |-> battery_level, p |-> position]

NoUndo == [n |-> 0, cmd |-> "none", last |-> [h |-> NORTH, b |-> 0, p |-> <<0, 0>>],
           first |-> [h |-> NORTH, b |-> 0, p |-> <<0, 0>>]]

UndoStep(name, value) ==
    IF name \in {"left", "right"} /\ value = "True"
    THEN IF undo.n >= 1 /\ undo.cmd # name
         THEN [n |-> 2, cmd |-> name, last |-> Now, first |-> undo.last]
         ELSE [n |-> 1, cmd |-> name, last |-> Now, first |-> Now]
    ELSE NoUndo

\* the record of a call: method, arguments, return value, printed error,
\* and its place in the runs of calls that are followed.  The arguments are
\* a tuple of numbers, or the one direction string of diagonal_move;
\* expand_grid records the new size and the size it is compared with, so
\* that a one-element tuple always holds a string.
Returns(name, args, value, message) ==
    /\ op' = name /\ arg' = args /\ res' = value /\ diag' = message
    /\ turns' = (IF name \in {"left", "right"}
                 THEN TurnRun(name, value = "True") ELSE NoTurns)
    /\ trip' = TripStep(name, args)
    /\ grow' = GrowStep(name, value)
    /\ undo' = UndoStep(name, value)

\* the command last given to a front end: the action name after parsing and
\* the argument tokens
NoRequest == [command |-> "", args |-> <<>>]

\* response = {'success': True, ...}: a handler that starts from success
InitialResponse_Success == [success |-> TRUE, message |-> <<>>, state |-> <<>>]

\* response = {'success': False, 'message': '', 'state': None}; a message is
\* the tuple of its parts, the state is <<>> for None or <<snapshot>>
InitialResponse == [success |-> FALSE, message |-> <<>>, state |-> <<>>]

\* the battery the robot was built with and the successful forward, turn
\* and diagonal calls since; counted in SpecTally only
Untallied == [b0 |-> 0, forward |-> 0, turn |-> 0, diagonal |-> 0]

\* a request thread of the server: the command it dispatched, the arguments
\* of the method call, the statement it is about to execute, the method's
\* local next_position and the value returned
Threads == {1, 2}
Idle == [cmd |-> "", args |-> <<>>, pc |-> "idle", next_position |-> <<0, 0>>,
         ret |-> ""]

\* the robot's fields; NoStart before any request has arrived
NoStart == [grid_size |-> 0, position |-> <<0, 0>>, direction |-> NORTH,
            battery_level |-> 0, obstacles |-> {}]
Here == [grid_size |-> grid_size, position |-> position, direction |-> direction,
         battery_level |-> battery_level, obstacles |-> obstacles]

\* ------------------------------------------------------------------ Init
Init ==
    /\ grid_size \in 1..MaxGrid
    /\ battery_level \in 0..MaxBattery
    /\ position = <<0, 0>>
    /\ direction = NORTH
    /\ obstacles = InitializeObstacles(grid_size)
    /\ op = "__init__" /\ arg = <<grid_size, battery_level>>
    /\ res = "None" /\ diag = ""
    /\ turns = NoTurns /\ trip = NoTrip /\ grow = NoGrow /\ undo = NoUndo
    /\ tally = Untallied
    /\ threads = [t \in Threads |-> Idle] /\ start = NoStart
    /\ front = "api"
    /\ request = NoRequest /\ response = InitialResponse /\ output = <<>>

\* --------------------------------------------------------------- actions

\* forward() with the boundary check moved in front of the battery check
Forward_BoundaryFirst ==
    LET next_position == GetNextPosition(position, direction) IN
    /\ IF ~IsValidPosition(next_position, grid_size)
       THEN /\ Returns("forward", <<>>, "False",
                       "ERROR: Cannot move outside grid boundaries!")
            /\ UNCHANGED state
       ELSE IF ~HasSufficientBattery(battery_level, 2 * movement_cost)
       THEN /\ Returns("forward", <<>>, "False",
                       "ERROR: Insufficient battery for movement!")
            /\ UNCHANGED state
       ELSE IF IsObstacle(next_position, obstacles)
       THEN /\ Returns("forward", <<>>, "False",
                       "ERROR: Cannot move through obstacle!")
            /\ UNCHANGED state
       ELSE /\ position' = next_position
            /\ battery_level' = ConsumeBattery(battery_level, movement_cost)
            /\ Returns("forward", <<>>, "True", "")
            /\ UNCHANGED <<grid_size, direction, obstacles>>

Forward ==
    LET next_position == GetNextPosition(position, direction) IN
    /\ IF ~HasSufficientBattery(battery_level, 2 * movement_cost)
       THEN /\ Returns("forward", <<>>, "False",
                       "ERROR: Insufficient battery for movement!")
            /\ UNCHANGED state
       ELSE IF ~IsValidPosition(next_position, grid_size)
       THEN /\ Returns("forward", <<>>, "False",
                       "ERROR: Cannot move outside grid boundaries!")
            /\ UNCHANGED state
       ELSE IF IsObstacle(next_position, obstacles)
       THEN /\ Returns("forward", <<>>, "False",
                       "ERROR: Cannot move through obstacle!")
            /\ UNCHANGED state
       ELSE /\ position' = next_position
            /\ battery_level' = ConsumeBattery(battery_level, movement_cost)
            /\ Returns("forward", <<>>, "True", "")
            /\ UNCHANGED <<grid_size, direction, obstacles>>

Left ==
    IF ~HasSufficientBattery(battery_level, 2 * turn_cost)
    THEN /\ Returns("left", <<>>, "False", "ERROR: Insufficient battery for turn!")
         /\ UNCHANGED state
    ELSE /\ direction' = TurnLeft(direction)
         /\ battery_level' = ConsumeBattery(battery_level, turn_cost)
         /\ Returns("left", <<>>, "True", "")
         /\ UNCHANGED <<grid_size, position, obstacles>>

Right ==
    IF ~HasSufficientBattery(battery_level, 2 * turn_cost)
    THEN /\ Returns("right", <<>>, "False", "ERROR: Insufficient battery for turn!")
         /\ UNCHANGED state
    ELSE /\ direction' = TurnRight(direction)
         /\ battery_level' = ConsumeBattery(battery_level, turn_cost)
         /\ Returns("right", <<>>, "True", "")
         /\ UNCHANGED <<grid_size, position, obstacles>>

\* report() that takes the cost of a turn
Report_Draining ==
    /\ battery_level' = ConsumeBattery(battery_level, turn_cost)
    /\ Returns("report", <<>>, "None", "")
    /\ UNCHANGED <<grid_size, position, direction, obstacles>>

Report ==
    /\ Returns("report", <<>>, "None", "")
    /\ UNCHANGED state


\* diagonal_move() without the final else branch: an unknown name keeps
\* next_position = position and falls through to the move
DiagonalMove_NoElse(name) ==
    LET next_position == DiagonalTarget(position, name) IN
    /\ IF ~HasSufficientBattery(battery_level, 3 * movement_cost)
       THEN /\ Returns("diagonal_move", <<name>>, "False",
                       "ERROR: Insufficient battery for diagonal movement!")
            /\ UNCHANGED state
       ELSE IF ~IsValidPosition(next_position, grid_size)
       THEN /\ Returns("diagonal_move", <<name>>, "False",
                       "ERROR: Cannot move outside grid boundaries!")
            /\ UNCHANGED state
       ELSE IF IsObstacle(next_position, obstacles)
       THEN /\ Returns("diagonal_move", <<name>>, "False",
                       "ERROR: Cannot move through obstacle!")
            /\ UNCHANGED state
       ELSE /\ position' = next_position
            /\ battery_level' = ConsumeBattery(battery_level, DiagonalCost)
            /\ Returns("diagonal_move", <<name>>, "True", "")
            /\ UNCHANGED <<grid_size, direction, obstacles>>

DiagonalMove(name) ==
    LET next_position == DiagonalTarget(position, name) IN
    /\ IF ~HasSufficientBattery(battery_level, 3 * movement_cost)
       THEN /\ Returns("diagonal_move", <<name>>, "False",
                       "ERROR: Insufficient battery for diagonal movement!")
            /\ UNCHANGED state
       ELSE IF name \notin DiagonalNames
       THEN /\ Returns("diagonal_move", <<name>>, "False",
                       "ERROR: Invalid diagonal direction!")
            /\ UNCHANGED state
       ELSE IF ~IsValidPosition(next_position, grid_size)
       THEN /\ Returns("diagonal_move", <<name>>, "False",
                       "ERROR: Cannot move outside grid boundaries!")
            /\ UNCHANGED state
       ELSE IF IsObstacle(next_position, obstacles)
       THEN /\ Returns("diagonal_move", <<name>>, "False",
                       "ERROR: Cannot move through obstacle!")
            /\ UNCHANGED state
       ELSE /\ position' = next_position
            /\ battery_level' = ConsumeBattery(battery_level, DiagonalCost)
            /\ Returns("diagonal_move", <<name>>, "True", "")
            /\ UNCHANGED <<grid_size, direction, obstacles>>

\* add_obstacle() without the test for the robot's own cell
AddObstacle_NoRobotCheck(pos) ==
    /\ IF ~IsValidPosition(pos, grid_size)
       THEN /\ Returns("add_obstacle", pos, "False",
                       "ERROR: Invalid position for obstacle!")
            /\ UNCHANGED state
       ELSE /\ obstacles' = obstacles \cup {pos}
            /\ Returns("add_obstacle", pos, "True", "")
            /\ UNCHANGED <<grid_size, position, direction, battery_level>>

\* add_obstacle() without the bounds validation
AddObstacle_NoBoundsCheck(pos) ==
    /\ IF pos = position
       THEN /\ Returns("add_obstacle", pos, "False",
                       "ERROR: Cannot place obstacle on robot position!")
            /\ UNCHANGED state
       ELSE /\ obstacles' = obstacles \cup {pos}
            /\ Returns("add_obstacle", pos, "True", "")
            /\ UNCHANGED <<grid_size, position, direction, battery_level>>

AddObstacle(pos) ==
    /\ IF ~IsValidPosition(pos, grid_size)
       THEN /\ Returns("add_obstacle", pos, "False",
                       "ERROR: Invalid position for obstacle!")
            /\ UNCHANGED state
       ELSE IF pos = position
       THEN /\ Returns("add_obstacle", pos, "False",
                       "ERROR: Cannot place obstacle on robot position!")
            /\ UNCHANGED state
       ELSE /\ obstacles' = obstacles \cup {pos}
            /\ Returns("add_obstacle", pos, "True", "")
            /\ UNCHANGED <<grid_size, position, direction, battery_level>>

\* remove_obstacle() that empties the obstacle set
RemoveObstacle_Clear(pos) ==
    IF pos \in obstacles
    THEN /\ obstacles' = {}
         /\ Returns("remove_obstacle", pos, "True", "")
         /\ UNCHANGED <<grid_size, position, direction, battery_level>>
    ELSE /\ Returns("remove_obstacle", pos, "False",
                    "ERROR: No obstacle at specified position!")
         /\ UNCHANGED state

\* remove_obstacle() written with set.discard: it succeeds for any cell
RemoveObstacle_Discard(pos) ==
    /\ obstacles' = obstacles \ {pos}
    /\ Returns("remove_obstacle", pos, "True", "")
    /\ UNCHANGED <<grid_size, position, direction, battery_level>>

RemoveObstacle(pos) ==
    /\ IF pos \in obstacles
       THEN /\ obstacles' = obstacles \ {pos}
            /\ Returns("remove_obstacle", pos, "True", "")
            /\ UNCHANGED <<grid_size, position, direction, battery_level>>
       ELSE /\ Returns("remove_obstacle", pos, "False",
                       "ERROR: No obstacle at specified position!")
            /\ UNCHANGED state


\* expand_grid() that stores new_size before it validates it
ExpandGrid_AssignFirst(new_size) ==
    /\ grid_size' = new_size
    /\ UNCHANGED <<position, direction, battery_level, obstacles>>
    /\ IF new_size <= grid_size
       THEN Returns("expand_grid", <<new_size, grid_size>>, "False",
                    "ERROR: New grid size must be larger than current size!")
       ELSE Returns("expand_grid", <<new_size, grid_size>>, "True", "")

\* expand_grid() that reports success without storing the new size
ExpandGrid_NoAssign(new_size) ==
    IF new_size <= grid_size
    THEN /\ Returns("expand_grid", <<new_size, grid_size>>, "False",
                    "ERROR: New grid size must be larger than current size!")
         /\ UNCHANGED state
    ELSE /\ Returns("expand_grid", <<new_size, grid_size>>, "True", "")
         /\ UNCHANGED state

\* expand_grid() that rejects only a smaller size
ExpandGrid_AllowEqual(new_size) ==
    /\ IF new_size < grid_size
       THEN /\ Returns("expand_grid", <<new_size, grid_size>>, "False",
                       "ERROR: New grid size must be larger than current size!")
            /\ UNCHANGED state
       ELSE /\ grid_size' = new_size
            /\ Returns("expand_grid", <<new_size, grid_size>>, "True", "")
            /\ UNCHANGED <<position, direction, battery_level, obstacles>>

\* expand_grid() that rejects only the current size
ExpandGrid_AnyOtherSize(new_size) ==
    /\ IF new_size = grid_size \/ new_size < 1
       THEN /\ Returns("expand_grid", <<new_size, grid_size>>, "False",
                       "ERROR: New grid size must be larger than current size!")
            /\ UNCHANGED state
       ELSE /\ grid_size' = new_size
            /\ Returns("expand_grid", <<new_size, grid_size>>, "True", "")
            /\ UNCHANGED <<position, direction, battery_level, obstacles>>

ExpandGrid(new_size) ==
    /\ IF new_size <= grid_size
       THEN /\ Returns("expand_grid", <<new_size, grid_size>>, "False",
                       "ERROR: New grid size must be larger than current size!")
            /\ UNCHANGED state
       ELSE /\ grid_size' = new_size
            /\ Returns("expand_grid", <<new_size, grid_size>>, "True", "")
            /\ UNCHANGED <<position, direction, battery_level, obstacles>>

DisplayGrid ==
    /\ Returns("display_grid", <<>>, "None", "")
    /\ UNCHANGED state

\* a method called directly on the object, as the tests do
Api(call) ==
    call /\ UNCHANGED <<front, request, response, output, tally, threads, start>>

Next ==
    \/ Api(Forward)
    \/ Api(Left)
    \/ Api(Right)
    \/ Api(Report)
    \/ \E name \in DirectionArgs : Api(DiagonalMove(name))
    \/ \E pos \in ObstacleArgs : Api(AddObstacle(pos))
    \/ \E pos \in ObstacleArgs : Api(RemoveObstacle(pos))
    \/ \E new_size \in SizeArgs : Api(ExpandGrid(new_size))
    \/ Api(DisplayGrid)

Spec == Init /\ [][Next]_vars

\* ------------------------------------------------------- endless runs
\* an endless sequence of calls: some method is called again and again.
\* Obstacles are placed on the cell north of the origin and on a cell left
\* of the grid only.
NearCellArgs == {<<0, 1>>, <<-1, 0>>}

NextLive ==
    \/ Api(Forward)
    \/ Api(Left)
    \/ Api(Right)
    \/ Api(Report)
    \/ \E name \in DirectionArgs : Api(DiagonalMove(name))
    \/ \E pos \in NearCellArgs : Api(AddObstacle(pos))
    \/ \E pos \in NearCellArgs : Api(RemoveObstacle(pos))
    \/ \E new_size \in SizeArgs : Api(ExpandGrid(new_size))
    \/ Api(DisplayGrid)

SpecLive == Init /\ [][NextLive]_vars /\ WF_vars(NextLive)

\* ------------------------------------------------------- battery ledger
\* the same calls with the successful forward, turn and diagonal calls
\* counted
TallyStep(name, value) ==
    IF value # "True" THEN tally
    ELSE IF name = "forward" THEN [tally EXCEPT !.forward = @ + 1]
    ELSE IF name \in {"left", "right"} THEN [tally EXCEPT !.turn = @ + 1]
    ELSE IF name = "diagonal_move" THEN [tally EXCEPT !.diagonal = @ + 1]
    ELSE tally

Counted(call) ==
    /\ call
    /\ tally' = TallyStep(op', res')
    /\ UNCHANGED <<front, request, response, output, threads, start>>

InitTally ==
    /\ grid_size \in 1..MaxGrid
    /\ battery_level \in 0..MaxBattery
    /\ position = <<0, 0>>
    /\ direction = NORTH
    /\ obstacles = InitializeObstacles(grid_size)
    /\ op = "__init__" /\ arg = <<grid_size, battery_level>>
    /\ res = "None" /\ diag = ""
    /\ turns = NoTurns /\ trip = NoTrip /\ grow = NoGrow /\ undo = NoUndo
    /\ tally = [Untallied EXCEPT !.b0 = battery_level]
    /\ threads = [t \in Threads |-> Idle] /\ start = NoStart
    /\ front = "api"
    /\ request = NoRequest /\ response = InitialResponse /\ output = <<>>

NextTally ==
    \/ Counted(Forward)
    \/ Counted(Left)
    \/ Counted(Right)
    \/ Counted(Report)
    \/ \E name \in DirectionArgs : Counted(DiagonalMove(name))
    \/ \E pos \in NearCellArgs : Counted(AddObstacle(pos))
    \/ \E pos \in NearCellArgs : Counted(RemoveObstacle(pos))
    \/ \E new_size \in SizeArgs : Counted(ExpandGrid(new_size))
    \/ Counted(DisplayGrid)

SpecTally == InitTally /\ [][NextTally]_vars

\* ------------------------------------------------------------ front ends
\* RobotSimulator(): the defaults of __init__, used by app.py and main()
DefaultGridSize == 5
DefaultBattery == 100

\* decimal numerals as a client writes them, and int() reading them back:
\* int(tok) raises ValueError unless tok is a numeral
Numerals == <<"0", "1", "2", "3", "4", "5", "6", "7", "8", "9">>
Str(n) == IF n = -1 THEN "-1" ELSE Numerals[n + 1]
CanInt(tok) == tok = "-1" \/ \E i \in 1..Len(Numerals) : Numerals[i] = tok
IntOf(tok) ==
    IF tok = "-1" THEN -1
    ELSE (CHOOSE i \in 1..Len(Numerals) : Numerals[i] = tok) - 1

\* command.strip().lower() on the words that are typed with capitals
Lower(tok) ==
    IF tok = "FORWARD" THEN "forward"
    ELSE IF tok = "Quit" THEN "quit"
    ELSE tok

\* robot.direction.name
DirectionName(dir) ==
    IF dir = NORTH THEN "NORTH"
    ELSE IF dir = EAST THEN "EAST"
    ELSE IF dir = SOUTH THEN "SOUTH"
    ELSE "WEST"

\* the state dictionary of the response
Snapshot(pos, dir, level, size, obs) ==
    [position |-> pos, direction |-> DirectionName(dir), battery |-> level,
     grid_size |-> size, obstacles |-> obs]

\* command names and argument lists sent to the front ends: for the
\* obstacle commands the cell north of the origin, a cell left of the grid,
\* one or no coordinate, and a word that is no number in either place
CommandNames == {"forward", "left", "right", "report", "diagonal", "add_obstacle",
                 "remove_obstacle", "expand", "display", "fly"}
AppCellArgs == {<<0, 1>>, <<-1, 0>>}
AppSizeArgs == {DefaultGridSize, DefaultGridSize + 1}
RequestArgs(command) ==
    IF command = "diagonal"
    THEN {<<>>} \cup {<<name>> : name \in DirectionArgs}
    ELSE IF command \in {"add_obstacle", "remove_obstacle"}
    THEN {<<Str(pos[1]), Str(pos[2])>> : pos \in AppCellArgs}
           \cup {<<>>, <<"0">>, <<"a", "1">>, <<"0", "b">>}
    ELSE IF command = "expand"
    THEN {<<Str(n)>> : n \in AppSizeArgs} \cup {<<>>, <<"big">>}
    ELSE {<<>>}
\* lines typed at the prompt, split into words
InputLines ==
    UNION {{<<command>> \o args : args \in RequestArgs(command)} :
             command \in CommandNames}
      \cup {<<>>, <<"FORWARD">>, <<"Quit">>, <<"quit">>, <<"quit", "now">>}

\* no method of the robot is called
NoCall == Returns("none", <<>>, "None", "") /\ UNCHANGED state

\* the response leaves the try block: the state after the call is attached
Answer(success, message) ==
    response' = [success |-> success, message |-> message,
                 state |-> <<Snapshot(position', direction', battery_level',
                                      grid_size', obstacles')>>]

\* except Exception as e: only the message is set
Caught(message) ==
    response' = [InitialResponse EXCEPT !.message = message]

ValueErrorText == "invalid literal for int() with base 10: "

\* the final else of handle_command with the message left empty
UnknownCommand_Silent(command) ==
    NoCall /\ Answer(InitialResponse.success, <<>>)

\* the final else of handle_command
UnknownCommand(command) ==
    NoCall /\ Answer(InitialResponse.success, <<"Unknown command: ", command>>)

HandleCommand(command, args) ==
    /\ front = "http"
    /\ UNCHANGED <<front, output, tally, threads, start>>
    /\ request' = [command |-> command, args |-> args]
    /\ IF command = "forward"
       THEN Forward /\ Answer(res' = "True", IF res' = "True"
                                 THEN <<"Moved forward">> ELSE <<"Movement failed">>)
       ELSE IF command = "left"
       THEN Left /\ Answer(res' = "True", IF res' = "True"
                              THEN <<"Turned left">> ELSE <<"Turn failed">>)
       ELSE IF command = "right"
       THEN Right /\ Answer(res' = "True", IF res' = "True"
                               THEN <<"Turned right">> ELSE <<"Turn failed">>)
       ELSE IF command = "report"
       THEN Report /\ Answer(TRUE, <<"Report generated">>)
       ELSE IF command = "diagonal"
       THEN IF args # <<>>
            THEN DiagonalMove(args[1])
                 /\ Answer(res' = "True", IF res' = "True"
                              THEN <<"Moved diagonally ", args[1]>>
                              ELSE <<"Diagonal move failed">>)
            ELSE NoCall /\ Answer(InitialResponse.success,
                                  <<"Missing direction for diagonal move">>)
       ELSE IF command = "add_obstacle"
       THEN IF Len(args) = 2
            THEN IF ~CanInt(args[1])
                 THEN NoCall /\ Caught(<<"Error: ", ValueErrorText, args[1]>>)
                 ELSE IF ~CanInt(args[2])
                 THEN NoCall /\ Caught(<<"Error: ", ValueErrorText, args[2]>>)
                 ELSE AddObstacle(<<IntOf(args[1]), IntOf(args[2])>>)
                      /\ Answer(res' = "True", IF res' = "True"
                                   THEN <<"Obstacle added">>
                                   ELSE <<"Failed to add obstacle">>)
            ELSE NoCall /\ Answer(InitialResponse.success,
                                  <<"Invalid coordinates for obstacle">>)
       ELSE IF command = "remove_obstacle"
       THEN IF Len(args) = 2
            THEN IF ~CanInt(args[1])
                 THEN NoCall /\ Caught(<<"Error: ", ValueErrorText, args[1]>>)
                 ELSE IF ~CanInt(args[2])
                 THEN NoCall /\ Caught(<<"Error: ", ValueErrorText, args[2]>>)
                 ELSE RemoveObstacle(<<IntOf(args[1]), IntOf(args[2])>>)
                      /\ Answer(res' = "True", IF res' = "True"
                                   THEN <<"Obstacle removed">>
                                   ELSE <<"Failed to remove obstacle">>)
            ELSE NoCall /\ Answer(InitialResponse.success,
                                  <<"Invalid coordinates for obstacle">>)
       ELSE IF command = "expand"
       THEN IF args # <<>>
            THEN IF ~CanInt(args[1])
                 THEN NoCall /\ Caught(<<"Error: ", ValueErrorText, args[1]>>)
                 ELSE ExpandGrid(IntOf(args[1]))
                      /\ Answer(res' = "True", IF res' = "True"
                                   THEN <<"Grid expanded">>
                                   ELSE <<"Failed to expand grid">>)
            ELSE NoCall /\ Answer(InitialResponse.success, <<"Missing grid size">>)
       ELSE UnknownCommand(command)

\* one turn of the command loop of main() on a line of words; the
\* display_grid() call that ends the turn only reads the state
MainCommand(words) ==
    LET action == Lower(words[1])
        args == [i \in 1..(Len(words) - 1) |-> Lower(words[i + 1])]
        Said(line) == NoCall /\ output' = line
        Called == output' = <<>>
    IN
    /\ front = "cli"
    /\ UNCHANGED <<response, tally, threads, start>>
    /\ IF words = <<>>
       THEN /\ request' = NoRequest /\ UNCHANGED front /\ Said(<<>>)
       ELSE IF Len(words) = 1 /\ Lower(words[1]) = "quit"
       THEN /\ request' = [command |-> "quit", args |-> <<>>]
            /\ front' = "exited" /\ Said(<<"Goodbye!">>)
       ELSE
       /\ request' = [command |-> action, args |-> args]
       /\ UNCHANGED front
       /\ IF action = "forward" THEN Forward /\ Called
          ELSE IF action = "left" THEN Left /\ Called
          ELSE IF action = "right" THEN Right /\ Called
          ELSE IF action = "report" THEN Report /\ Called
          ELSE IF action = "diagonal"
          THEN IF args # <<>>
               THEN DiagonalMove(args[1]) /\ Called
               ELSE Said(<<"ERROR: Diagonal direction required!">>)
          ELSE IF action = "add_obstacle"
          THEN IF Len(args) = 2
               THEN IF CanInt(args[1]) /\ CanInt(args[2])
                    THEN AddObstacle(<<IntOf(args[1]), IntOf(args[2])>>) /\ Called
                    ELSE Said(<<"ERROR: Invalid coordinates!">>)
               ELSE Said(<<"ERROR: Two coordinates required!">>)
          ELSE IF action = "remove_obstacle"
          THEN IF Len(args) = 2
               THEN IF CanInt(args[1]) /\ CanInt(args[2])
                    THEN RemoveObstacle(<<IntOf(args[1]), IntOf(args[2])>>) /\ Called
                    ELSE Said(<<"ERROR: Invalid coordinates!">>)
               ELSE Said(<<"ERROR: Two coordinates required!">>)
          ELSE IF action = "expand"
          THEN IF args # <<>>
               THEN IF CanInt(args[1])
                    THEN ExpandGrid(IntOf(args[1])) /\ Called
                    ELSE Said(<<"ERROR: Invalid grid size!">>)
               ELSE Said(<<"ERROR: Grid size required!">>)
          ELSE IF action = "display" THEN DisplayGrid /\ Called
          ELSE Said(<<"ERROR: Unknown command '", action, "'">>)

\* app.py and main() each build RobotSimulator() and then serve commands.
\* The battery starts at 100 and only falls; the robot can come back to the
\* origin facing North with every battery level up to about 60 (four turns
\* cost 8, a trip north and back 18, a diagonal trip 14, a triangle 25), and
\* the model takes up the run there, at a level of at most MaxBattery.
InitApp ==
    /\ grid_size = DefaultGridSize
    /\ battery_level \in {level \in 0..MaxBattery : level <= DefaultBattery}
    /\ position = <<0, 0>>
    /\ direction = NORTH
    /\ obstacles = InitializeObstacles(grid_size)
    /\ op = "__init__" /\ arg = <<DefaultGridSize, DefaultBattery>>
    /\ res = "None" /\ diag = ""
    /\ turns = NoTurns /\ trip = NoTrip /\ grow = NoGrow /\ undo = NoUndo
    /\ tally = Untallied
    /\ threads = [t \in Threads |-> Idle] /\ start = NoStart
    /\ front \in {"http", "cli"}
    /\ request = NoRequest /\ response = InitialResponse /\ output = <<>>

NextApp ==
    \/ \E command \in CommandNames : \E args \in RequestArgs(command) :
          HandleCommand(command, args)
    \/ \E words \in InputLines : MainCommand(words)

SpecApp == InitApp /\ [][NextApp]_vars

\* ---------------------------------------------------- concurrent requests
\* app.run() serves each request on a thread of its own and handle_command
\* takes no lock, so two requests run the robot's methods statement by
\* statement in any interleaving.  A step below is one statement of a
\* method: one test, or one assignment to a field.
RaceCalls ==
    {[cmd |-> "forward", args |-> <<>>], [cmd |-> "left", args |-> <<>>],
     [cmd |-> "right", args |-> <<>>],
     [cmd |-> "diagonal", args |-> <<"northeast">>],
     [cmd |-> "diagonal", args |-> <<"invalid">>],
     [cmd |-> "add_obstacle", args |-> <<0, 1>>],
     [cmd |-> "remove_obstacle", args |-> <<1, 1>>],
     [cmd |-> "expand", args |-> <<DefaultGridSize + 1>>]}

\* the first statement of the method a command dispatches to
FirstStep(command) ==
    IF command \in {"forward", "left", "right", "diagonal"} THEN "battery"
    ELSE IF command = "add_obstacle" THEN "valid"
    ELSE IF command = "remove_obstacle" THEN "member"
    ELSE "size"

\* what a step leaves alone: the records of the calls made one at a time
RaceFrame ==
    UNCHANGED <<op, arg, res, diag, turns, trip, grow, undo, tally,
                front, request, response, output, start>>

Goto(t, label) == threads' = [threads EXCEPT ![t].pc = label]

\* return value: the method is left; "Error" is an exception that
\* handle_command catches, with success left at False
Return(t, value) == threads' = [threads EXCEPT ![t].pc = "done", ![t].ret = value]

\* handle_command reads the request and reaches the method call
Begin(t, call) ==
    /\ front = "http" /\ threads[t].pc = "idle"
    /\ threads' = [threads EXCEPT ![t] = [Idle EXCEPT !.cmd = call.cmd,
                       !.args = call.args, !.pc = FirstStep(call.cmd)]]
    /\ start' = IF \A u \in Threads : threads[u].pc = "idle" THEN Here ELSE start
    /\ UNCHANGED <<op, arg, res, diag, turns, trip, grow, undo, tally,
                   front, request, response, output>>
    /\ UNCHANGED state

\* if not self._has_sufficient_battery(cost)
StepBattery(t) ==
    LET cmd == threads[t].cmd
        cost_halves == IF cmd = "forward" THEN 2 * movement_cost
                       ELSE IF cmd = "diagonal" THEN 3 * movement_cost
                       ELSE 2 * turn_cost
    IN
    /\ threads[t].pc = "battery"
    /\ IF ~HasSufficientBattery(battery_level, cost_halves)
       THEN Return(t, "False")
       ELSE Goto(t, IF cmd \in {"left", "right"} THEN "turn" ELSE "next")
    /\ UNCHANGED state /\ RaceFrame

\* next_position = self._get_next_position(), or the if / elif chain of
\* diagonal_move with its final else
StepNextPosition(t) ==
    /\ threads[t].pc = "next"
    /\ IF threads[t].cmd = "forward"
       THEN threads' = [threads EXCEPT ![t].pc = "valid",
                           ![t].next_position = GetNextPosition(position, direction)]
       ELSE IF threads[t].args[1] \notin DiagonalNames
       THEN Return(t, "False")
       ELSE threads' = [threads EXCEPT ![t].pc = "valid",
                           ![t].next_position =
                               DiagonalTarget(position, threads[t].args[1])]
    /\ UNCHANGED state /\ RaceFrame

\* if not self._is_valid_position(...)
StepValidPosition(t) ==
    LET adding == threads[t].cmd = "add_obstacle"
        cell == IF adding THEN threads[t].args ELSE threads[t].next_position
    IN
    /\ threads[t].pc = "valid"
    /\ IF ~IsValidPosition(cell, grid_size)
       THEN Return(t, "False")
       ELSE Goto(t, IF adding THEN "robot" ELSE "obstacle")
    /\ UNCHANGED state /\ RaceFrame

\* if self._is_obstacle(next_position)
StepIsObstacle(t) ==
    /\ threads[t].pc = "obstacle"
    /\ IF IsObstacle(threads[t].next_position, obstacles)
       THEN Return(t, "False")
       ELSE Goto(t, "move")
    /\ UNCHANGED state /\ RaceFrame

\* self.position = next_position
StepSetPosition(t) ==
    /\ threads[t].pc = "move"
    /\ position' = threads[t].next_position
    /\ Goto(t, "consume")
    /\ UNCHANGED <<grid_size, direction, battery_level, obstacles>> /\ RaceFrame

\* self.direction = Direction((self.direction.value -+ 1) % 4)
StepSetDirection(t) ==
    /\ threads[t].pc = "turn"
    /\ direction' = IF threads[t].cmd = "left" THEN TurnLeft(direction)
                    ELSE TurnRight(direction)
    /\ Goto(t, "consume")
    /\ UNCHANGED <<grid_size, position, battery_level, obstacles>> /\ RaceFrame

\* self._consume_battery(cost); return True
StepConsumeBattery(t) ==
    LET cmd == threads[t].cmd
        cost == IF cmd = "forward" THEN movement_cost
                ELSE IF cmd = "diagonal" THEN DiagonalCost
                ELSE turn_cost
    IN
    /\ threads[t].pc = "consume"
    /\ battery_level' = ConsumeBattery(battery_level, cost)
    /\ Return(t, "True")
    /\ UNCHANGED <<grid_size, position, direction, obstacles>> /\ RaceFrame

\* if position == self.position
StepRobotCell(t) ==
    /\ threads[t].pc = "robot"
    /\ IF threads[t].args = position
       THEN Return(t, "False")
       ELSE Goto(t, "add")
    /\ UNCHANGED state /\ RaceFrame

\* self.obstacles.add(position); return True
StepAdd(t) ==
    /\ threads[t].pc = "add"
    /\ obstacles' = obstacles \cup {threads[t].args}
    /\ Return(t, "True")
    /\ UNCHANGED <<grid_size, position, direction, battery_level>> /\ RaceFrame

\* if position in self.obstacles
StepMember(t) ==
    /\ threads[t].pc = "member"
    /\ IF threads[t].args \in obstacles
       THEN Goto(t, "remove")
       ELSE Return(t, "False")
    /\ UNCHANGED state /\ RaceFrame

\* self.obstacles.remove(position); return True.  set.remove raises
\* KeyError when the element has gone in the meantime.
StepRemove(t) ==
    /\ threads[t].pc = "remove"
    /\ IF threads[t].args \in obstacles
       THEN obstacles' = obstacles \ {threads[t].args} /\ Return(t, "True")
       ELSE UNCHANGED obstacles /\ Return(t, "Error")
    /\ UNCHANGED <<grid_size, position, direction, battery_level>> /\ RaceFrame

\* if new_size <= self.grid_size
StepNewSize(t) ==
    /\ threads[t].pc = "size"
    /\ IF threads[t].args[1] <= grid_size
       THEN Return(t, "False")
       ELSE Goto(t, "assign")
    /\ UNCHANGED state /\ RaceFrame

\* self.grid_size = new_size; return True
StepSetGridSize(t) ==
    /\ threads[t].pc = "assign"
    /\ grid_size' = threads[t].args[1]
    /\ Return(t, "True")
    /\ UNCHANGED <<position, direction, battery_level, obstacles>> /\ RaceFrame

\* the server built RobotSimulator() and two requests arrive; the battery
\* level is one the robot can have at the origin facing North, as in InitApp
InitRace ==
    /\ grid_size = DefaultGridSize
    /\ battery_level \in {level \in 0..MaxBattery : level <= DefaultBattery}
    /\ position = <<0, 0>>
    /\ direction = NORTH
    /\ obstacles = InitializeObstacles(grid_size)
    /\ op = "__init__" /\ arg = <<DefaultGridSize, DefaultBattery>>
    /\ res = "None" /\ diag = ""
    /\ turns = NoTurns /\ trip = NoTrip /\ grow = NoGrow /\ undo = NoUndo
    /\ tally = Untallied
    /\ threads = [t \in Threads |-> Idle] /\ start = NoStart
    /\ front = "http"
    /\ request = NoRequest /\ response = InitialResponse /\ output = <<>>

NextRace ==
    \E t \in Threads :
        \/ \E call \in RaceCalls : Begin(t, call)
        \/ StepBattery(t)
        \/ StepNextPosition(t)
        \/ StepValidPosition(t)
        \/ StepIsObstacle(t)
        \/ StepSetPosition(t)
        \/ StepSetDirection(t)
        \/ StepConsumeBattery(t)
        \/ StepRobotCell(t)
        \/ StepAdd(t)
        \/ StepMember(t)
        \/ StepRemove(t)
        \/ StepNewSize(t)
        \/ StepSetGridSize(t)

SpecRace == InitRace /\ [][NextRace]_vars

\* --------------------------------------------------------- type invariant
TypeOK ==
    /\ grid_size \in 1..Max(MaxGrid, DefaultGridSize + 1)
    /\ position \in (0..MaxGrid) \X (0..MaxGrid)
    /\ direction \in Directions
    /\ battery_level \in 0..MaxBattery
    /\ obstacles \subseteq (obstacle_positions \cup ObstacleArgs)
    /\ res \in {"True", "False", "None"}
    /\ turns.n \in 0..4
    /\ trip.n \in 0..3
    /\ grow.step \in 0..2
    /\ undo.n \in 0..2
    /\ front \in {"api", "http", "cli", "exited"}
    /\ response.success \in BOOLEAN
    /\ \A t \in Threads : threads[t].ret \in {"", "True", "False", "Error"}

\* ------------------------------------------------- vocabulary of the claims
\* the cell one step ahead of the robot, by heading index, written out
Ahead ==
    <<position[1] + (IF direction = 1 THEN 1 ELSE IF direction = 3 THEN -1 ELSE 0),
      position[2] + (IF direction = 0 THEN 1 ELSE IF direction = 2 THEN -1 ELSE 0)>>

\* the cell a diagonal step in the named direction leads to
Corner(name) ==
    <<position[1] + (IF name \in {"northeast", "southeast"} THEN 1 ELSE -1),
      position[2] + (IF name \in {"northeast", "northwest"} THEN 1 ELSE -1)>>

InGrid(cell) ==
    cell[1] \in 0..(grid_size - 1) /\ cell[2] \in 0..(grid_size - 1)

FourNames == {"northeast", "northwest", "southeast", "southwest"}

\* ---------------------------------------------------------------- claims

\* C1: after any sequence of calls the robot's position (x, y) satisfies
\* 0 <= x < grid_size and 0 <= y < grid_size.
C1_PositionInGrid ==
    /\ 0 <= position[1] /\ position[1] < grid_size
    /\ 0 <= position[2] /\ position[2] < grid_size

\* the robot has walked forward onto the last row of the grid
C1_Witness ==
    /\ op = "forward" /\ res = "True"
    /\ position[2] = grid_size - 1 /\ grid_size > 1

\* C2: in every state reachable through the public operations the robot's
\* position is not a member of the obstacle set.
C2_NotOnObstacle == position \notin obstacles

\* forward() was refused because the cell ahead of the robot is an obstacle
C2_Witness ==
    /\ op = "forward" /\ res = "False"
    /\ diag = "ERROR: Cannot move through obstacle!"
    /\ Ahead \in obstacles

\* C3: a call that returns false leaves grid_size, position, heading, battery
\* and the obstacle set exactly as they were before the call.
C3_FailureChangesNothing ==
    [][res' = "False" =>
          /\ grid_size' = grid_size
          /\ position' = position
          /\ direction' = direction
          /\ battery_level' = battery_level
          /\ obstacles' = obstacles]_vars

\* a rejected expand_grid call after the robot has moved and an obstacle
\* was added on the cell it left
C3_Witness ==
    /\ op = "expand_grid" /\ res = "False"
    /\ position # <<0, 0>>
    /\ <<0, 0>> \in obstacles

\* C4: forward() checks battery, then boundary, then obstacle; the first check
\* that fails decides the outcome, and it returns true only if none fails.
C4_ForwardCheckOrder ==
    [][op' = "forward" =>
          IF battery_level < 5
          THEN /\ res' = "False" /\ position' = position
               /\ diag' = "ERROR: Insufficient battery for movement!"
          ELSE IF ~InGrid(Ahead)
          THEN /\ res' = "False" /\ position' = position
               /\ diag' = "ERROR: Cannot move outside grid boundaries!"
          ELSE IF Ahead \in obstacles
          THEN /\ res' = "False" /\ position' = position
               /\ diag' = "ERROR: Cannot move through obstacle!"
          ELSE res' = "True" /\ diag' = ""]_vars

\* forward() failed on the battery check although the cell ahead is outside
\* the grid as well: the earlier check decided
C4_Witness ==
    /\ op = "forward" /\ res = "False"
    /\ diag = "ERROR: Insufficient battery for movement!"
    /\ battery_level < 5
    /\ ~InGrid(Ahead)

\* C5: with battery >= 5 and the cell ahead inside the grid and free,
\* forward() returns true, moves to exactly that cell and takes 5 of battery.
C5_ForwardSuccess ==
    [][(op' = "forward" /\ battery_level >= 5 /\ InGrid(Ahead)
           /\ Ahead \notin obstacles) =>
          /\ res' = "True"
          /\ position' = Ahead
          /\ battery_level' = battery_level - 5]_vars

\* a successful step to the south, the heading that needs the most battery
\* to be tried from the origin
C5_Witness ==
    /\ op = "forward" /\ res = "True"
    /\ direction = 2
    /\ position = <<0, 0>>

\* C6: left() and right() succeed iff battery >= 2, wherever the robot is;
\* on success the heading index becomes (h - 1) mod 4 resp. (h + 1) mod 4,
\* in 0..3, and battery decreases by exactly 2.
C6_Turns ==
    [][/\ op' = "left" =>
             /\ res' = "True" <=> battery_level >= 2
             /\ res' = "True" =>
                   /\ direction' = (direction + 3) % 4
                   /\ direction' \in 0..3
                   /\ battery_level' = battery_level - 2
       /\ op' = "right" =>
             /\ res' = "True" <=> battery_level >= 2
             /\ res' = "True" =>
                   /\ direction' = (IF direction = 3 THEN 0 ELSE direction + 1)
                   /\ direction' \in 0..3
                   /\ battery_level' = battery_level - 2]_vars

\* left() from North succeeded and gave West, the robot in the corner of
\* the grid with the boundary on two sides and a battery too low to move
C6_Witness ==
    /\ op = "left" /\ res = "True"
    /\ direction = 3
    /\ position = <<0, 0>>
    /\ battery_level < 5

\* C7 as stated: four consecutive right() calls, or four consecutive left()
\* calls, return the heading to the heading before the first of them.
C7_FourTurnsOriginal == turns.n = 4 => direction = turns.h0

\* C7 amended: four consecutive right() calls that all succeed, or four
\* consecutive left() calls that all succeed, return the heading to the
\* heading before the first of them.
C7_FourTurns == (turns.n = 4 /\ turns.ok) => direction = turns.h0

\* four successful left() calls that started from a heading other than North
C7_Witness ==
    /\ turns.n = 4 /\ turns.ok /\ turns.cmd = "left"
    /\ turns.h0 = 2
    /\ op = "left" /\ res = "True"

\* C8: with a valid direction and a free target inside the grid,
\* diagonal_move succeeds iff battery >= 8; at battery 7 it is refused as
\* insufficient battery with no change; every success takes exactly 7.
C8_DiagonalBattery ==
    [][(op' = "diagonal_move" /\ arg'[1] \in FourNames) =>
          /\ (InGrid(Corner(arg'[1])) /\ Corner(arg'[1]) \notin obstacles) =>
                /\ res' = "True" <=> battery_level >= 8
                /\ battery_level = 7 =>
                      /\ res' = "False"
                      /\ diag' = "ERROR: Insufficient battery for diagonal movement!"
                      /\ state' = state
          /\ res' = "True" => battery_level' = battery_level - 7]_vars

\* a diagonal move towards a free cell of the grid refused at battery 7
C8_Witness ==
    /\ op = "diagonal_move" /\ res = "False"
    /\ battery_level = 7
    /\ arg[1] \in FourNames
    /\ InGrid(Corner(arg[1])) /\ Corner(arg[1]) \notin obstacles

\* C9: a successful diagonal_move(d) moves to exactly the cell d names and
\* keeps the heading; with battery >= 8 it fails, the position unchanged,
\* exactly when that cell is outside the grid or an obstacle.
C9_DiagonalTarget ==
    [][(op' = "diagonal_move" /\ arg'[1] \in FourNames) =>
          /\ res' = "True" =>
                /\ position' = Corner(arg'[1])
                /\ direction' = direction
          /\ battery_level >= 8 =>
                /\ res' = "False" <=>
                      (~InGrid(Corner(arg'[1])) \/ Corner(arg'[1]) \in obstacles)
                /\ res' = "False" => position' = position]_vars

\* a successful move to the southwest, which needs a robot away from both
\* the left and the bottom edge
C9_Witness ==
    /\ op = "diagonal_move" /\ res = "True"
    /\ arg = <<"southwest">>
    /\ position = <<0, 0>>

\* C10 as stated: whatever the battery level, diagonal_move with a string
\* that is not one of the four names returns false, prints the invalid
\* direction error and changes no state.
C10_InvalidDirectionOriginal ==
    [][(op' = "diagonal_move" /\ arg'[1] \notin FourNames) =>
          /\ res' = "False"
          /\ diag' = "ERROR: Invalid diagonal direction!"
          /\ state' = state]_vars

\* C10 amended: diagonal_move with a string that is not one of the four names
\* returns false and changes no state; it prints the invalid direction error
\* when battery >= 8 and the insufficient battery error when battery <= 7,
\* because the battery check comes first.
C10_InvalidDirection ==
    [][(op' = "diagonal_move" /\ arg'[1] \notin FourNames) =>
          /\ res' = "False"
          /\ state' = state
          /\ diag' = (IF battery_level >= 8
                      THEN "ERROR: Invalid diagonal direction!"
                      ELSE "ERROR: Insufficient battery for diagonal movement!")]_vars

\* an unknown direction refused with the invalid direction error
C10_Witness ==
    /\ op = "diagonal_move" /\ res = "False"
    /\ arg = <<"invalid">>
    /\ diag = "ERROR: Invalid diagonal direction!"
    /\ battery_level >= 8

\* C11: add_obstacle(p) returns false iff p is outside the grid or is the
\* robot's cell; otherwise it returns true and the obstacle set becomes the
\* old set plus p (the same set when p was already an obstacle).
C11_AddObstacle ==
    [][op' = "add_obstacle" =>
          /\ res' \in {"True", "False"}
          /\ res' = "False" <=> (~InGrid(arg') \/ arg' = position)
          /\ res' = "False" => obstacles' = obstacles
          /\ res' = "True" => obstacles' = obstacles \cup {arg'}
          /\ (res' = "True" /\ arg' \in obstacles) => obstacles' = obstacles]_vars

\* an obstacle refused on the robot's own cell, the robot away from the origin
C11_Witness ==
    /\ op = "add_obstacle" /\ res = "False"
    /\ arg = position
    /\ position = <<0, 1>>

\* C12: remove_obstacle(p) returns true iff p is in the obstacle set; on
\* success the set becomes the old set minus p, on failure it is unchanged.
C12_RemoveObstacle ==
    [][op' = "remove_obstacle" =>
          /\ res' \in {"True", "False"}
          /\ res' = "True" <=> arg' \in obstacles
          /\ res' = "True" => obstacles' = obstacles \ {arg'}
          /\ res' = "False" => obstacles' = obstacles]_vars

\* the seed (1,1) removed while other obstacles stay
C12_Witness ==
    /\ op = "remove_obstacle" /\ res = "True"
    /\ arg = <<1, 1>>
    /\ <<1, 1>> \notin obstacles
    /\ <<0, 1>> \in obstacles /\ <<2, 3>> \in obstacles

\* C14: expand_grid(n) returns true iff n > grid_size; on success grid_size
\* becomes n, on failure it is unchanged.
C14_ExpandGrid ==
    [][op' = "expand_grid" =>
          /\ res' \in {"True", "False"}
          /\ res' = "True" <=> arg'[1] > grid_size
          /\ res' = "True" => grid_size' = arg'[1]
          /\ res' = "False" => grid_size' = grid_size]_vars

\* expand_grid with exactly the current size refused, the robot on its way
C14_Witness ==
    /\ op = "expand_grid" /\ res = "False"
    /\ arg[1] = grid_size
    /\ position # <<0, 0>>

\* C16: battery is >= 0 in every reachable state; at battery 0..4 every
\* forward() fails, and left()/right() succeed exactly while battery >= 2.
C16_BatteryNonNegative ==
    /\ [](battery_level >= 0)
    /\ [][/\ (op' = "forward" /\ battery_level \in 0..4) => res' = "False"
          /\ op' \in {"left", "right"} => (res' = "True" <=> battery_level >= 2)]_vars

\* a turn that succeeded at battery 2 or 3 and left less than a turn's worth
C16_Witness ==
    /\ op \in {"left", "right"} /\ res = "True"
    /\ battery_level \in 0..1

\* the seeds that lie in a grid of size g, written out by size
SeedsFor(g) ==
    (IF g >= 2 THEN {<<1, 1>>} ELSE {})
      \cup (IF g >= 4 THEN {<<2, 3>>, <<3, 1>>} ELSE {})
      \cup (IF g >= 5 THEN {<<4, 4>>} ELSE {})

\* C17: construction with grid size g and battery b yields position (0,0),
\* heading North, battery b, grid_size g and exactly the seeds inside the grid.
C17_Construction ==
    op = "__init__" =>
        /\ position = <<0, 0>>
        /\ direction = 0
        /\ grid_size = arg[1]
        /\ battery_level = arg[2]
        /\ obstacles = SeedsFor(arg[1])

\* a robot constructed with grid size 3: only the seed (1,1) is placed
C17_Witness ==
    /\ op = "__init__"
    /\ arg[1] = 3
    /\ obstacles = {<<1, 1>>}

\* C13: add_obstacle(p) followed by remove_obstacle(p) leaves p absent from
\* the obstacle set and every other obstacle as before the two calls, and a
\* second remove_obstacle(p) right after returns false.
C13_AddRemoveRoundTrip ==
    /\ trip.n \in {2, 3} =>
          /\ trip.p \notin obstacles
          /\ \A cell \in (obstacles \cup trip.before) \ {trip.p} :
                cell \in obstacles <=> cell \in trip.before
    /\ trip.n = 3 => (op = "remove_obstacle" /\ res = "False")

\* the whole round trip on a cell that was an obstacle before it, with other
\* obstacles on the grid
C13_Witness ==
    /\ trip.n = 3
    /\ trip.p \in trip.before
    /\ Cardinality(trip.before) > 1
    /\ obstacles = trip.before \ {trip.p}

\* C15: after a successful expand_grid(n) from size s, a robot at the old
\* edge (coordinate s-1) heading outward, whose forward() was refused with the
\* boundary error before, succeeds with forward() given battery >= 5 and no
\* obstacle ahead, and add_obstacle at a cell with a coordinate in [s, n)
\* succeeds, while it was refused before.
C15_ExpansionOpensCells ==
    [][/\ (/\ op' = "forward" /\ battery_level >= 5
           /\ \/ direction = 0 /\ position[2] = grid_size - 1
              \/ direction = 1 /\ position[1] = grid_size - 1) =>
             (res' = "False" /\ diag' = "ERROR: Cannot move outside grid boundaries!")
       /\ (/\ op' = "add_obstacle" /\ (arg'[1] >= grid_size \/ arg'[2] >= grid_size)) =>
             res' = "False"
       /\ (/\ grow.step = 1 /\ op' = "forward"
           /\ battery_level >= 5 /\ Ahead \notin obstacles
           /\ \/ direction = 0 /\ position[2] = grow.from - 1
              \/ direction = 1 /\ position[1] = grow.from - 1) =>
             (res' = "True" /\ position' = Ahead)
       /\ (/\ grow.step = 1 /\ op' = "add_obstacle"
           /\ arg'[1] \in 0..(grid_size - 1) /\ arg'[2] \in 0..(grid_size - 1)
           /\ (arg'[1] >= grow.from \/ arg'[2] >= grow.from)) =>
             (res' = "True" /\ arg' \in obstacles')]_vars

\* right after an expansion the robot has stepped from the old edge onto a
\* cell the old grid did not have
C15_Witness ==
    /\ grow.step = 2 /\ grow.from >= 2
    /\ op = "forward" /\ res = "True"
    /\ \/ direction = 0 /\ position[2] = grow.from
       \/ direction = 1 /\ position[1] = grow.from

\* ------------------------------------- vocabulary of the front-end claims
\* the commands each front end dispatches on
HttpKnown == {"forward", "left", "right", "report", "diagonal", "add_obstacle",
              "remove_obstacle", "expand"}
CliKnown == HttpKnown \cup {"display"}

\* a token that reads as a whole number
IsNumber(tok) ==
    tok \in {"-1", "0", "1", "2", "3", "4", "5", "6", "7", "8", "9"}

\* a command whose argument is missing or is not a number where one is needed
Malformed(r) ==
    \/ r.command = "diagonal" /\ r.args = <<>>
    \/ /\ r.command \in {"add_obstacle", "remove_obstacle"}
       /\ (Len(r.args) < 2 \/ \E i \in 1..2 : ~IsNumber(r.args[i]))
    \/ /\ r.command = "expand"
       /\ (r.args = <<>> \/ ~IsNumber(r.args[1]))

\* the robot's state as the response should show it
Shown ==
    [position |-> position,
     direction |-> <<"NORTH", "EAST", "SOUTH", "WEST">>[direction + 1],
     battery |-> battery_level, grid_size |-> grid_size, obstacles |-> obstacles]

\* C18: for every request to the /command handler the response carries a
\* non-null state snapshot equal to the robot's state after the operation.
C18_StateAlwaysAttached ==
    (front = "http" /\ request # NoRequest) =>
        /\ Len(response.state) = 1
        /\ response.state[1] = Shown

\* C19: a command name a front end does not recognize never alters the
\* robot's state; the handler answers success=false with the message
\* "Unknown command: <name>" and the command loop prints an error.
C19_UnknownCommand ==
    [][/\ (front = "http" /\ request'.command \notin HttpKnown) =>
             /\ response'.success = FALSE
             /\ response'.message = <<"Unknown command: ", request'.command>>
             /\ state' = state
       /\ (/\ front = "cli" /\ request' # NoRequest
           /\ request'.command \notin CliKnown
           /\ ~(request'.command = "quit" /\ request'.args = <<>>)) =>
             /\ output' = <<"ERROR: Unknown command '", request'.command, "'">>
             /\ state' = state]_vars

\* the handler refused "display", which only the command loop knows, after
\* the robot had moved
C19_Witness ==
    /\ front = "http"
    /\ request.command = "display"
    /\ response.success = FALSE
    /\ response.message = <<"Unknown command: ", "display">>
    /\ position # <<0, 0>>

\* C20: in both front ends a command with a non-numeric coordinate or grid
\* size, or with a missing argument, is reported as a failure, the front end
\* keeps running and the robot's state is unchanged; the handler's response
\* has success=false.
C20_MalformedInput ==
    [][(front \in {"http", "cli"} /\ Malformed(request')) =>
          /\ state' = state
          /\ front' = front
          /\ front = "http" => (response'.success = FALSE /\ response'.message # <<>>)
          /\ front = "cli" => (Len(output') = 1 /\ output'[1] # "Goodbye!")]_vars

\* the command loop reported a coordinate that is no number
C20_Witness ==
    /\ front = "cli"
    /\ request.command = "add_obstacle" /\ request.args = <<"0", "b">>
    /\ output = <<"ERROR: Invalid coordinates!">>
    /\ <<0, 1>> \in obstacles

\* C22: grid_size never decreases and changes only in a successful
\* expand_grid step; forward, left, right, diagonal_move, add_obstacle,
\* remove_obstacle and report never change it.
C22_GridOnlyGrows ==
    [][/\ grid_size' >= grid_size
       /\ grid_size' # grid_size => (op' = "expand_grid" /\ res' = "True")
       /\ op' \in {"forward", "left", "right", "diagonal_move", "add_obstacle",
                   "remove_obstacle", "report"} => grid_size' = grid_size]_vars

\* the robot stepped forward right after an expansion and the grid kept the
\* size it had grown to
C22_Witness ==
    /\ grow.step = 2 /\ op = "forward" /\ res = "True"
    /\ grid_size > grow.from

\* C23: in every reachable state every obstacle lies inside the current grid;
\* remove_obstacle at a position outside the grid returns false, and
\* expand_grid leaves every obstacle and the robot inside the grid.
C23_ObstaclesInGrid ==
    /\ [](\A cell \in obstacles : InGrid(cell))
    /\ [][/\ (op' = "remove_obstacle" /\ ~InGrid(arg')) => res' = "False"
          /\ op' = "expand_grid" =>
                \A cell \in obstacles' \cup {position'} :
                    /\ cell[1] \in 0..(grid_size' - 1)
                    /\ cell[2] \in 0..(grid_size' - 1)]_vars

\* remove_obstacle refused just above the top row while the top row holds
\* an obstacle
C23_Witness ==
    /\ op = "remove_obstacle" /\ res = "False"
    /\ arg = <<0, grid_size>>
    /\ <<0, grid_size - 1>> \in obstacles

\* C25: forward and diagonal_move change only position and battery; left and
\* right only heading and battery; add_obstacle and remove_obstacle only the
\* obstacle set; expand_grid only grid_size; report and display change
\* nothing and cannot fail.
C25_Frame ==
    [][/\ op' \in {"forward", "diagonal_move"} =>
             (grid_size' = grid_size /\ direction' = direction
                /\ obstacles' = obstacles)
       /\ op' \in {"left", "right"} =>
             (grid_size' = grid_size /\ position' = position
                /\ obstacles' = obstacles)
       /\ op' \in {"add_obstacle", "remove_obstacle"} =>
             (grid_size' = grid_size /\ position' = position
                /\ direction' = direction /\ battery_level' = battery_level)
       /\ op' = "expand_grid" =>
             (position' = position /\ direction' = direction
                /\ battery_level' = battery_level /\ obstacles' = obstacles)
       /\ op' \in {"report", "display_grid"} =>
             /\ res' # "False" /\ diag' = ""
             /\ grid_size' = grid_size /\ position' = position
             /\ direction' = direction /\ battery_level' = battery_level
             /\ obstacles' = obstacles]_vars

\* report() called on a robot that has moved, turned and left an obstacle
\* behind on the origin
C25_Witness ==
    /\ op = "report" /\ res = "None"
    /\ position # <<0, 0>> /\ direction # 0
    /\ <<0, 0>> \in obstacles

\* C24: a successful left() immediately followed by a successful right(), or
\* right() then left(), restores the original heading, with the position
\* unchanged and battery lower by exactly 4.
C24_TurnAndBack ==
    undo.n = 2 =>
        /\ direction = undo.first.h
        /\ position = undo.first.p
        /\ battery_level = undo.first.b - 4

\* right() then left() away from the origin, both successful
C24_Witness ==
    /\ undo.n = 2 /\ undo.cmd = "left"
    /\ op = "left" /\ res = "True"
    /\ position # <<0, 0>>

\* C26: in any run from construction with battery B0 >= 0, battery always
\* equals B0 - 5 * (successful forward) - 2 * (successful left/right)
\* - 7 * (successful diagonal_move); battery never increases, every success
\* deducts exactly its cost, and the floor at 0 never takes effect.
C26_BatteryLedger ==
    /\ [](/\ tally.b0 >= 0
          /\ battery_level = tally.b0 - 5 * tally.forward - 2 * tally.turn
                               - 7 * tally.diagonal)
    /\ [][/\ battery_level' <= battery_level
          /\ (res' = "True" /\ op' = "forward") =>
                (battery_level - 5 >= 0 /\ battery_level' = battery_level - 5)
          /\ (res' = "True" /\ op' \in {"left", "right"}) =>
                (battery_level - 2 >= 0 /\ battery_level' = battery_level - 2)
          /\ (res' = "True" /\ op' = "diagonal_move") =>
                (battery_level - 7 >= 0 /\ battery_level' = battery_level - 7)
          /\ ~(res' = "True" /\ op' \in {"forward", "left", "right", "diagonal_move"})
                => battery_level' = battery_level]_vars

\* a run with a successful forward, a successful turn and a successful
\* diagonal move that has used up the battery to below the cost of a turn
C26_Witness ==
    /\ tally.forward >= 1 /\ tally.turn >= 1 /\ tally.diagonal >= 1
    /\ battery_level < 2

\* C27: along any infinite sequence of operations only finitely many
\* operations change position or heading; once battery < 2 no later operation
\* changes position, heading or battery, while add_obstacle, remove_obstacle
\* and expand_grid still succeed whenever their own conditions are met.
C27_EventuallyStops ==
    /\ <>[][position' = position /\ direction' = direction]_vars
    /\ [][battery_level < 2 =>
             /\ position' = position /\ direction' = direction
             /\ battery_level' = battery_level /\ battery_level' < 2
             /\ (op' = "add_obstacle" /\ InGrid(arg') /\ arg' # position)
                   => res' = "True"
             /\ (op' = "remove_obstacle" /\ arg' \in obstacles) => res' = "True"
             /\ (op' = "expand_grid" /\ arg'[1] > grid_size) => res' = "True"]_vars

\* with the battery below the cost of a turn, away from the origin, the grid
\* was expanded after an obstacle had been put north of the origin
C27_Witness ==
    /\ battery_level < 2
    /\ op = "expand_grid" /\ res = "True"
    /\ position # <<0, 0>> /\ direction # 0
    /\ <<0, 1>> \in obstacles

\* ------------------------------- vocabulary of the claim on concurrency
\* the outcome of one command handled alone on the robot r: the robot
\* afterwards and whether the response reports success
Alone(c, r) ==
    LET x == r.position[1]
        y == r.position[2]
        inside(cell) == /\ cell[1] \in 0..(r.grid_size - 1)
                        /\ cell[2] \in 0..(r.grid_size - 1)
        ahead == <<x + (IF r.direction = 1 THEN 1 ELSE IF r.direction = 3 THEN -1 ELSE 0),
                   y + (IF r.direction = 0 THEN 1 ELSE IF r.direction = 2 THEN -1 ELSE 0)>>
        corner == <<x + (IF c.args[1] \in {"northeast", "southeast"} THEN 1 ELSE -1),
                    y + (IF c.args[1] \in {"northeast", "northwest"} THEN 1 ELSE -1)>>
        fails == [robot |-> r, success |-> FALSE]
    IN
    IF c.cmd = "forward"
    THEN IF r.battery_level >= 5 /\ inside(ahead) /\ ahead \notin r.obstacles
         THEN [robot |-> [r EXCEPT !.position = ahead, !.battery_level = @ - 5],
               success |-> TRUE]
         ELSE fails
    ELSE IF c.cmd \in {"left", "right"}
    THEN IF r.battery_level >= 2
         THEN [robot |-> [r EXCEPT !.direction = IF c.cmd = "left" THEN (@ + 3) % 4
                                                 ELSE (@ + 1) % 4,
                                   !.battery_level = @ - 2],
               success |-> TRUE]
         ELSE fails
    ELSE IF c.cmd = "diagonal"
    THEN IF /\ r.battery_level >= 8 /\ c.args[1] \in FourNames
            /\ inside(corner) /\ corner \notin r.obstacles
         THEN [robot |-> [r EXCEPT !.position = corner, !.battery_level = @ - 7],
               success |-> TRUE]
         ELSE fails
    ELSE IF c.cmd = "add_obstacle"
    THEN IF inside(c.args) /\ c.args # r.position
         THEN [robot |-> [r EXCEPT !.obstacles = @ \cup {c.args}], success |-> TRUE]
         ELSE fails
    ELSE IF c.cmd = "remove_obstacle"
    THEN IF c.args \in r.obstacles
         THEN [robot |-> [r EXCEPT !.obstacles = @ \ {c.args}], success |-> TRUE]
         ELSE fails
    ELSE IF c.args[1] > r.grid_size
         THEN [robot |-> [r EXCEPT !.grid_size = c.args[1]], success |-> TRUE]
         ELSE fails

\* the final robot and the two results when command a is handled before b
InOrder(a, b, r) ==
    LET first == Alone(a, r)
        second == Alone(b, first.robot)
    IN [robot |-> second.robot, of_a |-> first.success, of_b |-> second.success]

\* C21: when two requests are handled concurrently against the one shared
\* robot, the final state and the pair of results equal those of one of the
\* two serial orders of the two operations.
C21_Atomic ==
    (\A t \in Threads : threads[t].pc = "done") =>
        LET final == [grid_size |-> grid_size, position |-> position,
                      direction |-> direction, battery_level |-> battery_level,
                      obstacles |-> obstacles]
            ok1 == threads[1].ret = "True"
            ok2 == threads[2].ret = "True"
            one_two == InOrder(threads[1], threads[2], start)
            two_one == InOrder(threads[2], threads[1], start)
        IN \/ /\ final = one_two.robot
              /\ ok1 = one_two.of_a /\ ok2 = one_two.of_b
           \/ /\ final = two_one.robot
              /\ ok2 = two_one.of_a /\ ok1 = two_one.of_b

====
